---- MODULE Spec2Model ----
(***************************************************************************)
(* Model of src/Metal/generate_font_atlas.py: the command line entry       *)
(* point main() and generate_font_atlas(), which plans a 16-column glyph   *)
(* grid, renders one glyph per cell into a grayscale canvas, saves the     *)
(* canvas and writes a metadata header next to it.                         *)
(*                                                                         *)
(* The font rasterizer (PIL ImageFont / ImageDraw) and the file system are *)
(* the environment: whether the font file exists and loads, its metrics,   *)
(* the bounding box of its glyphs, which glyphs it cannot render and       *)
(* whether a write raises are inputs.  font_size only reaches the          *)
(* rasterizer, so it is part of the choice of font.  A glyph is modelled   *)
(* as solid ink over its bounding box; nothing clips ink to a cell, only   *)
(* to the canvas.  An exception in the try block leaves the canvas as it   *)
(* was.                                                                    *)
(*                                                                         *)
(* Spec      one run of main() from process start to exit.                 *)
(* SpecPlan  the planning part of generate_font_atlas (character list and  *)
(*           atlas geometry) applied to a wider range of arguments,        *)
(*           including first_char / last_char / include_box_drawing, which *)
(*           main() always leaves at their defaults.                       *)
(***************************************************************************)
EXTENDS Integers, Sequences, FiniteSets

VARIABLES
    pc,                  \* position in main() / generate_font_atlas()
    fontExists,          \* os.path.exists(font_path)
    loadOk,              \* ImageFont.truetype(...) does not raise
    output_path,         \* sequence of characters
    cell_width, cell_height, padding,
    first_char, last_char, include_box_drawing,
    ascent, descent,     \* font.getmetrics()
    bbox,                \* font.getbbox(char): <<left, top, right, bottom>>
    badGlyphs,           \* codepoints for which getbbox / draw.text raises
    char_list,
    rows, padded_cell_width, padded_cell_height,
    atlas_width, atlas_height,
    i,                   \* loop variable of the render pass (0-based)
    atlas,               \* set of pixels <<x, y>> of value 255; all others are 0
    writes,              \* successful file writes, in order: <<path, content>>
    exception,           \* uncaught exception that left generate_font_atlas
    success,             \* return value of generate_font_atlas, "none" before
    exitCode             \* value main() hands to sys.exit, -1 before

inputs == <<fontExists, loadOk, output_path, cell_width, cell_height, padding,
            first_char, last_char, include_box_drawing, ascent, descent, bbox,
            badGlyphs>>
layout == <<char_list, rows, padded_cell_width, padded_cell_height,
            atlas_width, atlas_height>>
vars == <<pc, inputs, layout, i, atlas, writes, exception, success, exitCode>>

----------------------------------------------------------------------------
(* Program constants *)

glyphs_per_row == 16
DefaultCell == 16
DefaultFirstChar == 32
DefaultLastChar == 126
BoxDrawingFirst == 9472
BoxDrawingEnd == 9600
UnderscoreCode == 95
underscore_height == 2
TextBias == 2

(* Bounds of the model *)

MaxCell == 2          \* cell sizes: -1 .. MaxCell, and the default 16
MaxPadding == 1
MaxSpan == 17         \* last_char - first_char in SpecPlan, from -1 (empty range)

CellSizes == ((0 - 1) .. MaxCell) \cup {DefaultCell}
Paddings == 0 .. MaxPadding

\* What the rasterizer reports for the loaded font.  bad: the codepoints
\* whose getbbox / draw.text raises.
Fonts == { [ascent |-> 2, descent |-> 0, bbox |-> <<0, 0, 1, 2>>, bad |-> {}],
           [ascent |-> 1, descent |-> 1, bbox |-> <<0, 0, 3, 2>>, bad |-> {94, 95, 96, 9472}],
           [ascent |-> 3, descent |-> 1, bbox |-> <<1, 1, 2, 3>>, bad |-> {65}],
           [ascent |-> 1, descent |-> 0, bbox |-> <<0, 2, 1, 3>>, bad |-> {}] }

\* first_char values of SpecPlan: the default, and values around the box
\* drawing block
PlanFirstChars == {DefaultFirstChar, BoxDrawingFirst - 3, BoxDrawingEnd - 2, BoxDrawingEnd}

PngExt == <<".", "p", "n", "g">>
MetadataSuffix == <<"_", "m", "e", "t", "a", "d", "a", "t", "a", ".", "h">>

\* "a.png", "a.bmp"
OutputPaths == { <<"a">> \o PngExt,
                 <<"a", ".", "b", "m", "p">> }

----------------------------------------------------------------------------
(* Pure helpers *)

\* str.replace(old, new): every non-overlapping occurrence, left to right
RECURSIVE Replace(_, _, _)
Replace(s, old, new) ==
    IF Len(s) < Len(old) THEN s
    ELSE IF SubSeq(s, 1, Len(old)) = old
         THEN new \o Replace(SubSeq(s, Len(old) + 1, Len(s)), old, new)
         ELSE <<Head(s)>> \o Replace(Tail(s), old, new)

header_path_of(path) == Replace(path, PngExt, MetadataSuffix)

header_path == header_path_of(output_path)

\* range(lo, hi) as a sequence
Range(lo, hi) == [k \in 1 .. (IF hi > lo THEN hi - lo ELSE 0) |-> lo + k - 1]

\* variant with a slip: the ASCII range stops one short of last_char
BuildListExclusive(first, last, box) ==
    Range(first, last) \o (IF box THEN Range(BoxDrawingFirst, BoxDrawingEnd) ELSE <<>>)

BuildList(first, last, box) ==
    Range(first, last + 1) \o (IF box THEN Range(BoxDrawingFirst, BoxDrawingEnd) ELSE <<>>)

\* variant with a slip: the division rounds down
RowCountFloor(char_count) == char_count \div glyphs_per_row

RowCount(char_count) == (char_count + glyphs_per_row - 1) \div glyphs_per_row

RECURSIVE PowerLoop(_, _)
PowerLoop(power, n) == IF power < n THEN PowerLoop(power * 2, n) ELSE power

\* variant with a slip: the loop runs while power <= n
RECURSIVE PowerLoopStrict(_, _)
PowerLoopStrict(power, n) == IF power <= n THEN PowerLoopStrict(power * 2, n) ELSE power

next_power_of_2_strict(n) == PowerLoopStrict(1, n)

next_power_of_2(n) == PowerLoop(1, n)

----------------------------------------------------------------------------
(* Glyph placement, lines 104-156 *)

char_count == Len(char_list)

char_code(k) == char_list[k + 1]

row(k) == k \div glyphs_per_row
col(k) == k % glyphs_per_row

\* variant with a slip: the column pitch forgets the padding
padded_cell_x_unpadded(k) == col(k) * cell_width

padded_cell_x(k) == col(k) * padded_cell_width
padded_cell_y(k) == row(k) * padded_cell_height

cell_x(k) == padded_cell_x(k) + padding
cell_y(k) == padded_cell_y(k) + padding

vertical_padding == (cell_height - (ascent + descent)) \div 2

\* variant with a slip: the bar is not moved up
underscore_y_unadjusted(k) == cell_y(k) + vertical_padding + ascent + 1

underscore_y(k) == cell_y(k) + vertical_padding + ascent + 1 - 2

\* the box handed to draw.rectangle: <<x0, y0, x1, y1>>, corners included
UnderscoreRect(k) ==
    << cell_x(k), underscore_y(k),
       cell_x(k) + cell_width - 1, underscore_y(k) + underscore_height - 1 >>

char_width == bbox[3] - bbox[1]
offset_x == (cell_width - char_width) \div 2
text_y(k) == cell_y(k) + vertical_padding - TextBias

RectPixels(r) == { <<x, y>> : x \in r[1] .. r[3], y \in r[2] .. r[4] }

\* draw.text((x, y), char): the glyph's ink, its bounding box taken from (x, y)
TextInk(k) ==
    RectPixels(<< cell_x(k) + offset_x + bbox[1], text_y(k) + bbox[2],
                  cell_x(k) + offset_x + bbox[3] - 1, text_y(k) + bbox[4] - 1 >>)

\* drawing outside the image is dropped
OnCanvas(S) == { p \in S : /\ p[1] >= 0 /\ p[1] < atlas_width
                           /\ p[2] >= 0 /\ p[2] < atlas_height }

\* the body of the try block raises: draw.rectangle rejects x1 < x0, the
\* font cannot give or draw the glyph
RenderRaises(k) ==
    IF char_code(k) = UnderscoreCode
    THEN UnderscoreRect(k)[3] < UnderscoreRect(k)[1]
    ELSE char_code(k) \in badGlyphs

\* the pixels the body of the try block sets to 255 when it does not raise
RenderInk(k) ==
    OnCanvas(IF char_code(k) = UnderscoreCode
             THEN RectPixels(UnderscoreRect(k))
             ELSE TextInk(k))

----------------------------------------------------------------------------
(* Files *)

\* content of the file at path p after the writes so far
FileContent(p) ==
    LET ks == { k \in 1 .. Len(writes) : writes[k][1] = p }
    IN IF ks = {} THEN "absent"
       ELSE writes[CHOOSE k \in ks : \A m \in ks : m <= k][2]

----------------------------------------------------------------------------
(* Initial states *)

NotPlanned ==
    /\ char_list = <<>>
    /\ rows = 0
    /\ padded_cell_width = 0
    /\ padded_cell_height = 0
    /\ atlas_width = 0
    /\ atlas_height = 0
    /\ i = 0
    /\ atlas = {}
    /\ writes = <<>>
    /\ exception = "none"
    /\ success = "none"
    /\ exitCode = 0 - 1

NoFont ==
    /\ ascent = 0
    /\ descent = 0
    /\ bbox = <<0, 0, 0, 0>>
    /\ badGlyphs = {}

\* process start: argv read (lines 204-228), nothing done yet.  main() never
\* passes first_char / last_char and always asks for box drawing.
Init ==
    /\ pc = "main"
    /\ fontExists \in BOOLEAN
    /\ loadOk \in BOOLEAN
    /\ output_path \in OutputPaths
    /\ cell_width \in CellSizes
    /\ cell_height \in CellSizes
    /\ padding \in Paddings
    /\ first_char = DefaultFirstChar
    /\ last_char = DefaultLastChar
    /\ include_box_drawing = TRUE
    /\ NoFont
    /\ NotPlanned

\* generate_font_atlas called with arbitrary ranges, font loaded (line 58)
InitPlan ==
    /\ pc = "chars"
    /\ fontExists = TRUE
    /\ loadOk = TRUE
    /\ output_path = <<"a">> \o PngExt
    /\ cell_width \in CellSizes
    /\ cell_height \in CellSizes
    /\ padding \in Paddings
    /\ \/ /\ first_char \in PlanFirstChars
          /\ \E span \in (0 - 1) .. MaxSpan : last_char = first_char + span
       \/ /\ first_char = DefaultFirstChar
          /\ last_char = DefaultLastChar
    /\ include_box_drawing \in BOOLEAN
    /\ \E f \in Fonts : /\ ascent = f.ascent
                        /\ descent = f.descent
                        /\ bbox = f.bbox
                        /\ badGlyphs = f.bad
    /\ NotPlanned

----------------------------------------------------------------------------
(* main(), lines 230-246 *)

\* lines 230-235
MainFontMissing ==
    /\ pc = "main"
    /\ ~fontExists
    /\ pc' = "exit"
    /\ exitCode' = 1
    /\ UNCHANGED <<inputs, layout, i, atlas, writes, exception, success>>

\* line 237: the call
MainCall ==
    /\ pc = "main"
    /\ fontExists
    /\ pc' = "load"
    /\ UNCHANGED <<inputs, layout, i, atlas, writes, exception, success, exitCode>>

\* line 246, and the interpreter's exit status 1 for an uncaught exception
MainReturn ==
    /\ pc = "return"
    /\ pc' = "exit"
    /\ exitCode' = IF exception = "none" /\ success = "True" THEN 0 ELSE 1
    /\ UNCHANGED <<inputs, layout, i, atlas, writes, exception, success>>

----------------------------------------------------------------------------
(* generate_font_atlas(), lines 40-197 *)

\* variant with a slip: the except branch does not return
LoadFontFailFallsThrough ==
    /\ pc = "load"
    /\ ~loadOk
    /\ pc' = "chars"
    /\ UNCHANGED <<inputs, layout, i, atlas, writes, exception, success, exitCode>>

\* lines 47-52
LoadFontFail ==
    /\ pc = "load"
    /\ ~loadOk
    /\ success' = "False"
    /\ pc' = "return"
    /\ UNCHANGED <<inputs, layout, i, atlas, writes, exception, exitCode>>

\* lines 49, 55-56
LoadFontOk ==
    /\ pc = "load"
    /\ loadOk
    /\ \E f \in Fonts : /\ ascent' = f.ascent
                        /\ descent' = f.descent
                        /\ bbox' = f.bbox
                        /\ badGlyphs' = f.bad
    /\ pc' = "chars"
    /\ UNCHANGED <<fontExists, loadOk, output_path, cell_width, cell_height, padding,
                   first_char, last_char, include_box_drawing>>
    /\ UNCHANGED <<layout, i, atlas, writes, exception, success, exitCode>>

\* lines 60-72
BuildCharList ==
    /\ pc = "chars"
    /\ char_list' = BuildList(first_char, last_char, include_box_drawing)
    /\ pc' = "layout"
    /\ UNCHANGED <<inputs, rows, padded_cell_width, padded_cell_height,
                   atlas_width, atlas_height, i, atlas, writes, exception,
                   success, exitCode>>

\* variant with a slip: the geometry is validated before the layout
ComputeLayoutValidated ==
    /\ pc = "layout"
    /\ IF cell_width <= 0 \/ cell_height <= 0
       THEN /\ exception' = "InvalidGeometry"
            /\ pc' = "return"
            /\ UNCHANGED layout
       ELSE /\ rows' = RowCount(char_count)
            /\ padded_cell_width' = cell_width + (padding * 2)
            /\ padded_cell_height' = cell_height + (padding * 2)
            /\ atlas_width' = next_power_of_2(glyphs_per_row * padded_cell_width')
            /\ atlas_height' = next_power_of_2(rows' * padded_cell_height')
            /\ pc' = "canvas"
            /\ UNCHANGED <<char_list, exception>>
    /\ UNCHANGED <<inputs, i, atlas, writes, success, exitCode>>

\* lines 74-94
ComputeLayout ==
    /\ pc = "layout"
    /\ rows' = RowCount(char_count)
    /\ padded_cell_width' = cell_width + (padding * 2)
    /\ padded_cell_height' = cell_height + (padding * 2)
    /\ atlas_width' = next_power_of_2(glyphs_per_row * padded_cell_width')
    /\ atlas_height' = next_power_of_2(rows' * padded_cell_height')
    /\ pc' = "canvas"
    /\ UNCHANGED <<inputs, char_list, i, atlas, writes, exception, success, exitCode>>

\* lines 99-101, and the loop variable before the first iteration
CreateAtlas ==
    /\ pc = "canvas"
    /\ atlas' = {}
    /\ i' = 0
    /\ pc' = "render"
    /\ UNCHANGED <<inputs, layout, writes, exception, success, exitCode>>

\* variant with a slip: the try / except is outside the loop, a failing glyph ends the pass
RenderCharAborting ==
    /\ pc = "render"
    /\ i < char_count
    /\ IF RenderRaises(i)
       THEN /\ i' = char_count
            /\ atlas' = atlas
       ELSE /\ i' = i + 1
            /\ atlas' = atlas \cup RenderInk(i)
    /\ UNCHANGED <<pc, inputs, layout, writes, exception, success, exitCode>>

\* lines 104-158: one iteration of the render loop
RenderChar ==
    /\ pc = "render"
    /\ i < char_count
    /\ atlas' = IF RenderRaises(i) THEN atlas ELSE atlas \cup RenderInk(i)
    /\ i' = i + 1
    /\ UNCHANGED <<pc, inputs, layout, writes, exception, success, exitCode>>

\* lines 160-162, atlas.save(output_path) succeeds
SaveAtlas ==
    /\ pc = "render"
    /\ i = char_count
    /\ writes' = Append(writes, <<output_path, "image">>)
    /\ pc' = "metadata"
    /\ UNCHANGED <<inputs, layout, i, atlas, exception, success, exitCode>>

\* line 162 raises (the file cannot be opened for writing); nobody catches it
SaveAtlasRaises ==
    /\ pc = "render"
    /\ i = char_count
    /\ exception' = "save"
    /\ pc' = "return"
    /\ UNCHANGED <<inputs, layout, i, atlas, writes, success, exitCode>>

\* lines 164-197
WriteMetadata ==
    /\ pc = "metadata"
    /\ writes' = Append(writes, <<header_path, "metadata">>)
    /\ success' = "True"
    /\ pc' = "return"
    /\ UNCHANGED <<inputs, layout, i, atlas, exception, exitCode>>

\* line 166 raises (the header cannot be opened for writing); nobody catches it
WriteMetadataRaises ==
    /\ pc = "metadata"
    /\ exception' = "metadata"
    /\ pc' = "return"
    /\ UNCHANGED <<inputs, layout, i, atlas, writes, success, exitCode>>

----------------------------------------------------------------------------

Next ==
    \/ MainFontMissing
    \/ MainCall
    \/ LoadFontFail
    \/ LoadFontOk
    \/ BuildCharList
    \/ ComputeLayout
    \/ CreateAtlas
    \/ RenderChar
    \/ SaveAtlas
    \/ SaveAtlasRaises
    \/ WriteMetadata
    \/ WriteMetadataRaises
    \/ MainReturn

Spec == Init /\ [][Next]_vars

NextPlan ==
    \/ BuildCharList
    \/ ComputeLayout

SpecPlan == InitPlan /\ [][NextPlan]_vars

----------------------------------------------------------------------------
(* Vocabulary of the properties *)

Planned == pc \in {"canvas", "render", "metadata", "return", "exit"} /\ fontExists /\ loadOk

RECURSIVE IsPowerOfTwo(_)
IsPowerOfTwo(n) == n = 1 \/ (n > 1 /\ n % 2 = 0 /\ IsPowerOfTwo(n \div 2))

SmallestPowerOfTwoAtLeast(w, n) ==
    IsPowerOfTwo(w) /\ w >= n /\ (w > 1 => w \div 2 < n)

StrictlyIncreasing(s) == \A k \in 1 .. Len(s) - 1 : s[k] < s[k + 1]
NoRepeats(s) == \A j, k \in 1 .. Len(s) : j /= k => s[j] /= s[k]

\* index k (0-based) of the sequence holds what the claimed numbering says
NumberedAsClaimed ==
    LET n == last_char - first_char + 1
    IN /\ Len(char_list) = n + (IF include_box_drawing THEN 128 ELSE 0)
       /\ \A k \in 0 .. n - 1 : char_list[k + 1] = first_char + k
       /\ include_box_drawing =>
             \A k \in 0 .. 127 : char_list[n + k + 1] = 9472 + k

FailedIndices == { k \in 0 .. char_count - 1 : RenderRaises(k) }

InnerCell(k) ==
    { <<x, y>> : x \in cell_x(k) .. cell_x(k) + cell_width - 1,
                 y \in cell_y(k) .. cell_y(k) + cell_height - 1 }

\* the canvas of a run in which no glyph fails
ReferenceAtlas == UNION { RenderInk(k) : k \in 0 .. char_count - 1 }

\* the ink of the glyphs that did not fail
InkOfTheOthers == UNION { RenderInk(k) : k \in (0 .. char_count - 1) \ FailedIndices }

ImageSaved == \E k \in 1 .. Len(writes) : writes[k] = <<output_path, "image">>
MetadataWritten == \E k \in 1 .. Len(writes) : writes[k] = <<header_path, "metadata">>

----------------------------------------------------------------------------
(* C1: for cell_width > 0, cell_height > 0, padding >= 0 and any number of
   codepoints, atlas_width is the smallest power of two that is at least
   16 * (cell_width + 2 * padding) and atlas_height the smallest power of two
   that is at least rows * (cell_height + 2 * padding); cell_width = 16 with
   padding = 1 gives a row of 288 pixels and an atlas 512 wide. *)
C1_AtlasPowerOfTwo ==
    (pc = "canvas" /\ cell_width > 0 /\ cell_height > 0 /\ padding >= 0) =>
        /\ SmallestPowerOfTwoAtLeast(atlas_width, 16 * (cell_width + 2 * padding))
        /\ SmallestPowerOfTwoAtLeast(atlas_height, rows * (cell_height + 2 * padding))
        /\ (cell_width = 16 /\ padding = 1) =>
               (16 * (cell_width + 2 * padding) = 288 /\ atlas_width = 512)

C1_Witness ==
    /\ pc = "canvas"
    /\ cell_width = 16 /\ cell_height = 16 /\ padding = 1
    /\ char_count = 223
    /\ atlas_width = 512 /\ atlas_height = 256

(* C2, as claimed: for every first_char <= last_char the sequence is strictly
   increasing, numbered as claimed, and no codepoint appears twice. *)
C2_AsClaimed ==
    (pc = "layout" /\ first_char <= last_char) =>
        /\ StrictlyIncreasing(char_list)
        /\ NumberedAsClaimed
        /\ NoRepeats(char_list)

(* C2, amended: for every first_char <= last_char index k holds
   first_char + k, and with box drawing index (last_char - first_char + 1) + k
   holds 0x2500 + k; the sequence is strictly increasing, with no codepoint
   at two indices, when box drawing is left out or last_char < 0x2500. *)
C2_Numbering ==
    (pc = "layout" /\ first_char <= last_char) =>
        /\ NumberedAsClaimed
        /\ (~include_box_drawing \/ last_char < 9472) =>
               (StrictlyIncreasing(char_list) /\ NoRepeats(char_list))

C2_Witness ==
    /\ pc = "layout"
    /\ first_char = 32 /\ last_char = 126 /\ include_box_drawing
    /\ char_list[1] = 32 /\ char_list[95] = 126 /\ char_list[96] = 9472
    /\ Len(char_list) = 223

(* C3: at the end of a run either both files have been written, or the run
   ended with an error and neither has been written. *)
C3_Atomic ==
    pc = "exit" =>
        \/ ImageSaved /\ MetadataWritten /\ exitCode = 0
        \/ ~ImageSaved /\ ~MetadataWritten /\ exitCode = 1

(* C4, as claimed (no write raising): when some glyph fails, every index is
   visited, every other cell holds the pixels of a run without the failure,
   the failed cell is all background, both files are written,
   generate_font_atlas returns True and main returns 0. *)
C4_AsClaimed ==
    (pc = "exit" /\ Planned /\ exception = "none" /\ FailedIndices /= {}) =>
        /\ i = char_count
        /\ \A k \in FailedIndices : InnerCell(k) \cap atlas = {}
        /\ \A k \in (0 .. char_count - 1) \ FailedIndices :
               InnerCell(k) \cap atlas = InnerCell(k) \cap ReferenceAtlas
        /\ ImageSaved /\ MetadataWritten
        /\ success = "True"
        /\ exitCode = 0

(* C4, amended: when some glyph fails, every index is still visited, the
   failed glyph paints nothing and every other glyph paints what it paints in
   a run without the failure, so the canvas is exactly the ink of the other
   glyphs; unless a file write raises, both files are written,
   generate_font_atlas returns True and main returns 0. *)
C4_FailureIsolated ==
    (pc \in {"metadata", "return", "exit"} /\ Planned /\ FailedIndices /= {}) =>
        /\ i = char_count
        /\ atlas = InkOfTheOthers
        /\ (pc = "exit" /\ exception = "none") =>
               /\ ImageSaved /\ MetadataWritten
               /\ success = "True"
               /\ exitCode = 0

C4_Witness ==
    /\ pc = "exit"
    /\ \E k \in FailedIndices : char_code(k) /= UnderscoreCode
    /\ atlas /= {}
    /\ atlas /= ReferenceAtlas
    /\ exitCode = 0

(* C5: a missing font file ends main with 1 before generate_font_atlas is
   entered; a font that does not load makes generate_font_atlas return False
   before a canvas or a file exists, and main ends with 1; no file is written
   in either case.  main ends with 0 only when generate_font_atlas returned
   True. *)
C5_FatalFontErrors ==
    /\ ~fontExists =>
          /\ pc \in {"main", "exit"}
          /\ success = "none"
          /\ writes = <<>>
          /\ pc = "exit" => exitCode = 1
    /\ (fontExists /\ ~loadOk) =>
          /\ pc \in {"main", "load", "return", "exit"}
          /\ atlas_width = 0 /\ atlas_height = 0 /\ atlas = {}
          /\ writes = <<>>
          /\ pc \in {"return", "exit"} => success = "False"
          /\ pc = "exit" => exitCode = 1
    /\ exitCode = 0 => success = "True"

C5_Witness ==
    /\ pc = "exit"
    /\ fontExists /\ ~loadOk
    /\ success = "False"
    /\ exitCode = 1

(* C6: the underscore is not drawn through the font.  Its iteration sets to
   255 exactly the pixels (those on the canvas) of the rectangle of columns
   cellX .. cellX + cell_width - 1 and the two rows starting at
   cellY + floor((cell_height - (ascent + descent)) / 2) + ascent - 1, also
   with a font that cannot render the underscore. *)
C6_UnderscoreBar ==
    [][ (pc = "render" /\ i < char_count /\ char_list[i + 1] = 95) =>
          LET cellX == (i % 16) * (cell_width + 2 * padding) + padding
              cellY == (i \div 16) * (cell_height + 2 * padding) + padding
              top   == cellY + ((cell_height - (ascent + descent)) \div 2) + ascent - 1
              bar   == { <<x, y>> \in (cellX .. cellX + cell_width - 1) \X (top .. top + 1) :
                            x >= 0 /\ x < atlas_width /\ y >= 0 /\ y < atlas_height }
          IN atlas' = atlas \cup bar ]_vars

C6_Witness ==
    /\ pc = "render"
    /\ i = 64
    /\ cell_width = 2
    /\ UnderscoreCode \in badGlyphs
    /\ Cardinality(RectPixels(UnderscoreRect(63)) \cap atlas) = 4
    /\ UnderscoreRect(63)[4] - UnderscoreRect(63)[2] = 1

(* C7, as claimed: with cell_width <= 0 or cell_height <= 0 the run stops
   before a layout is computed, a glyph is rendered or a file is written. *)
C7_AsClaimed ==
    (cell_width <= 0 \/ cell_height <= 0) =>
        /\ pc \notin {"canvas", "render", "metadata"}
        /\ i = 0
        /\ writes = <<>>
        /\ exitCode /= 0

(* C7, amended: with cell_width <= 0 or cell_height <= 0 no geometry error
   is raised and the run does not stop early: once the font is loaded the
   layout is computed as for any geometry (an extent that comes out <= 0
   gives a canvas side of 1), every index is visited, and unless a file write
   raises both files are written and main returns 0. *)
C7_NoGeometryCheck ==
    (cell_width <= 0 \/ cell_height <= 0) =>
        /\ exception \in {"none", "save", "metadata"}
        /\ Planned =>
              /\ atlas_width >= 1 /\ atlas_height >= 1
              /\ 16 * (cell_width + 2 * padding) <= 0 => atlas_width = 1
              /\ rows * (cell_height + 2 * padding) <= 0 => atlas_height = 1
        /\ (pc = "exit" /\ fontExists /\ loadOk /\ exception = "none") =>
              /\ i = char_count /\ char_count = 223
              /\ ImageSaved /\ MetadataWritten
              /\ exitCode = 0

C7_Witness ==
    /\ pc = "exit"
    /\ cell_width <= 0
    /\ atlas_width = 1
    /\ i = 223
    /\ Len(writes) = 2
    /\ exitCode = 0

(* C8: rows is the ceiling of char_count / 16 for every char_count >= 0:
   rows * 16 >= char_count and, for char_count > 0, (rows - 1) * 16 <
   char_count; no codepoints give no rows; the default configuration has 223
   codepoints and 14 rows. *)
C8_RowsCeil ==
    pc = "canvas" =>
        /\ rows * 16 >= char_count
        /\ char_count > 0 => (rows - 1) * 16 < char_count
        /\ char_count = 0 => rows = 0
        /\ (first_char = 32 /\ last_char = 126 /\ include_box_drawing) =>
               (char_count = 223 /\ rows = 14)

C8_Witness ==
    /\ pc = "canvas"
    /\ first_char = 32 /\ last_char = 126 /\ include_box_drawing
    /\ char_count = 223
    /\ rows = 14

(* C9: for every index k, with (row, col) = (k div 16, k mod 16), the padded
   cell [col * pw, (col + 1) * pw) x [row * ph, (row + 1) * ph) is where the
   code puts it, lies inside the canvas, has its inner origin at
   (paddedX + padding, paddedY + padding), and shares no pixel with the
   padded cell of any other index. *)
PaddedEmpty(k) == padded_cell_width <= 0 \/ padded_cell_height <= 0

PaddedInside(k) ==
    PaddedEmpty(k) \/
        /\ 0 <= padded_cell_x(k)
        /\ padded_cell_x(k) + padded_cell_width <= atlas_width
        /\ 0 <= padded_cell_y(k)
        /\ padded_cell_y(k) + padded_cell_height <= atlas_height

PaddedDisjoint(j, k) ==
    \/ PaddedEmpty(j)
    \/ padded_cell_x(j) + padded_cell_width <= padded_cell_x(k)
    \/ padded_cell_x(k) + padded_cell_width <= padded_cell_x(j)
    \/ padded_cell_y(j) + padded_cell_height <= padded_cell_y(k)
    \/ padded_cell_y(k) + padded_cell_height <= padded_cell_y(j)

C9_CellsDisjointInside ==
    (pc = "render" /\ i = 0) =>
        \A k \in 0 .. char_count - 1 :
            /\ padded_cell_x(k) = (k % 16) * (cell_width + 2 * padding)
            /\ padded_cell_y(k) = (k \div 16) * (cell_height + 2 * padding)
            /\ cell_x(k) = padded_cell_x(k) + padding
            /\ cell_y(k) = padded_cell_y(k) + padding
            /\ PaddedInside(k)
            /\ \A j \in 0 .. k - 1 : PaddedDisjoint(j, k)

C9_Witness ==
    /\ pc = "render" /\ i = 0
    /\ cell_width = 2 /\ cell_height = 1 /\ padding = 1
    /\ char_count = 223
    /\ padded_cell_x(222) = 56 /\ padded_cell_y(222) = 39
    /\ atlas_width = 64 /\ atlas_height = 64

(* C10: the metadata path differs from the image path, so a successful run
   leaves the image at output_path and the metadata in another file. *)
C10_DistinctArtifacts ==
    (pc = "exit" /\ success = "True") =>
        /\ header_path /= output_path
        /\ FileContent(output_path) = "image"
        /\ FileContent(header_path) = "metadata"

====
